---- MODULE Spec2Model ----
(***************************************************************************)
(* Model of langchain1.py: a Streamlit page that asks a hosted LLM about a *)
(* place and keeps the answers in st.session_state.messages.               *)
(*                                                                         *)
(* Streamlit re-executes the whole script, top to bottom, once per user    *)
(* interaction (a "render cycle").  pc is the position of the script in    *)
(* the current cycle; "idle" means the script has finished and the page is *)
(* waiting for the next interaction.  Strings are sequences of one-letter  *)
(* strings, so that emptiness, whitespace and prefixes are computed.       *)
(***************************************************************************)
EXTENDS Integers, Sequences, FiniteSets, TLC

\* Bound on the number of queries answered in one session.
MaxQueries == 6

\* The same bound for the sessions explored for progress properties.
MaxLiveQueries == 4

\* langchain1.py:138  st.session_state.messages[-5:]
HistoryWindow == 5

----------------------------------------------------------------------------
(* Strings *)

Empty == << >>
Blank == <<" ">>
Taj   == <<"T", "a", "j">>

\* Values the user can leave in the text input (langchain1.py:108).
PlaceInputs == {Empty, Blank, Taj}

\* Texts the chain can return (langchain1.py:49-50).
Responses == {<<"#", "#", "#">>}

\* str(e) of the exceptions the chain can raise (langchain1.py:51).
Failures == {<<"t", "i", "m", "e", "o", "u", "t">>}

\* langchain1.py:52  the literal "Error getting information: "
ErrorPrefix ==
    <<"E","r","r","o","r"," ","g","e","t","t","i","n","g"," ",
      "i","n","f","o","r","m","a","t","i","o","n",":"," ">>

IsPrefix(s, t) ==
    /\ Len(s) <= Len(t)
    /\ \A i \in 1..Len(s) : s[i] = t[i]

IsBlank(s) == \A i \in 1..Len(s) : s[i] = " "

RECURSIVE LStrip(_)
LStrip(s) == IF s # << >> /\ Head(s) = " " THEN LStrip(Tail(s)) ELSE s

RECURSIVE RStrip(_)
RStrip(s) ==
    IF s # << >> /\ s[Len(s)] = " " THEN RStrip(SubSeq(s, 1, Len(s) - 1)) ELSE s

\* What str.strip() would give; the script never calls it.
Strip(s) == RStrip(LStrip(s))

Min(a, b) == IF a < b THEN a ELSE b

----------------------------------------------------------------------------
(* State *)

VARIABLES
    session_state,  \* st.session_state: a mapping, key "messages" once created
    widget_place,   \* text typed in the "place_input" text box (browser side)
    button_fired,   \* the button was pressed for the cycle that is running
    pc,             \* position of the script in the current cycle
    place_input,    \* local of main(): value returned by st.text_input
    search_button,  \* local of main(): value returned by st.button
    info,           \* local of main(): value returned by get_place_info
    outcome,        \* what chain.invoke did in the last call
    calls,          \* place argument of every chain.invoke issued so far
    outstanding,    \* number of chain.invoke calls that have not returned
    result_block,   \* the "### Information about ..." block of the page
    recent,         \* the expanders of the "Recent Searches" section
    cycle0          \* snapshot taken when the current cycle was triggered

vars == <<session_state, widget_place, button_fired, pc, place_input,
          search_button, info, outcome, calls, outstanding, result_block,
          recent, cycle0>>

NoResult == [shown |-> FALSE, place |-> Empty, info |-> Empty]
NoOutcome == [ok |-> TRUE, text |-> Empty]

\* The list behind st.session_state.messages (empty while the key is absent).
History ==
    IF "messages" \in DOMAIN session_state THEN session_state["messages"]
    ELSE << >>

Snapshot == [history |-> History, ncalls |-> Len(calls)]

----------------------------------------------------------------------------
(* Pure pieces of the script *)

\* Variant of Truthy: the input is stripped before the test.
Truthy_Stripped(s) == Len(Strip(s)) > 0

\* Python truthiness of a str: non-empty.
Truthy(s) == Len(s) > 0

\* Variant of ShouldProcess: the button is not consulted.
ShouldProcess_IgnoresButton(button, place) == Truthy(place)

\* langchain1.py:121  if search_button and place_input:
ShouldProcess(button, place) == button /\ Truthy(place)

\* Variant of ErrorString: the bare failure detail.
ErrorString_NoPrefix(e) == e

\* langchain1.py:52  f"Error getting information: {str(e)}"
ErrorString(e) == ErrorPrefix \o e

\* Variant of NewRecord: the place is stripped before it is stored.
NewRecord_Trimmed(place, text) == [place |-> Strip(place), info |-> text]

\* langchain1.py:127  {"place": place_input, "info": info}
NewRecord(place, text) == [place |-> place, info |-> text]

\* langchain1.py:138  st.session_state.messages[-5:]
LastFive(msgs) ==
    IF Len(msgs) <= HistoryWindow THEN msgs
    ELSE SubSeq(msgs, Len(msgs) - HistoryWindow + 1, Len(msgs))

Reversed(s) == [i \in 1..Len(s) |-> s[Len(s) - i + 1]]

\* Variant of RecentSearches: oldest first.
RecentSearches_NotReversed(msgs) == LastFive(msgs)

\* langchain1.py:138  reversed(st.session_state.messages[-5:])
RecentSearches(msgs) == Reversed(LastFive(msgs))

----------------------------------------------------------------------------
(* Initial state: a new session, the script about to run for the first time *)

Init ==
    /\ session_state = [k \in {} |-> << >>]
    /\ widget_place = Empty
    /\ button_fired = FALSE
    /\ pc = "L14"
    /\ place_input = Empty
    /\ search_button = FALSE
    /\ info = Empty
    /\ outcome = NoOutcome
    /\ calls = << >>
    /\ outstanding = 0
    /\ result_block = NoResult
    /\ recent = << >>
    /\ cycle0 = [history |-> << >>, ncalls |-> 0]

----------------------------------------------------------------------------
(* User interactions: each one starts a new render cycle *)

\* main() is straight-line code with no thread and no callback: one run of
\* the script serves one interaction, and the runs of a session follow one
\* another.  An interaction is therefore taken when the previous run is over.

\* The user commits a new text in the text box; the script reruns and
\* st.button returns False in that run.
UserTypes ==
    /\ pc = "idle"
    /\ \E s \in PlaceInputs :
         /\ s # widget_place
         /\ widget_place' = s
    /\ button_fired' = FALSE
    /\ cycle0' = Snapshot
    /\ pc' = "L14"
    /\ UNCHANGED <<session_state, place_input, search_button, info, outcome,
                   calls, outstanding, result_block, recent>>

\* The user presses "Get Information"; the script reruns and st.button
\* returns True in that run only.
UserClicksUpTo(limit) ==
    /\ pc = "idle"
    /\ Len(History) < limit
    /\ button_fired' = TRUE
    /\ cycle0' = Snapshot
    /\ pc' = "L14"
    /\ UNCHANGED <<session_state, widget_place, place_input, search_button,
                   info, outcome, calls, outstanding, result_block, recent>>

UserClicks == UserClicksUpTo(MaxQueries)

\* The same interaction in the sessions explored for progress properties.
UserClicksLive == UserClicksUpTo(MaxLiveQueries)

----------------------------------------------------------------------------
(* The script *)

\* Variant of ModuleInit: the list is reset on every run of the script.
ModuleInit_AlwaysResets ==
    /\ pc = "L14"
    /\ session_state' = ("messages" :> << >>)
    /\ pc' = "L108"
    /\ UNCHANGED <<widget_place, button_fired, place_input, search_button,
                   info, outcome, calls, outstanding, result_block, recent,
                   cycle0>>

\* langchain1.py:14-15
ModuleInit ==
    /\ pc = "L14"
    /\ session_state' =
         IF "messages" \notin DOMAIN session_state
         THEN session_state @@ ("messages" :> << >>)
         ELSE session_state
    /\ pc' = "L108"
    /\ UNCHANGED <<widget_place, button_fired, place_input, search_button,
                   info, outcome, calls, outstanding, result_block, recent,
                   cycle0>>

\* langchain1.py:105-118
ReadWidgets ==
    /\ pc = "L108"
    /\ place_input' = widget_place
    /\ search_button' = button_fired
    /\ pc' = "L121"
    /\ UNCHANGED <<session_state, widget_place, button_fired, info, outcome,
                   calls, outstanding, result_block, recent, cycle0>>

\* Variant of ProcessQuery: the chain is invoked twice for one trigger.
ProcessQuery_Twice ==
    /\ pc = "L121"
    /\ ShouldProcess(search_button, place_input)
    /\ calls' = Append(Append(calls, place_input), place_input)
    /\ outstanding' = outstanding + 2
    /\ pc' = "L124"
    /\ UNCHANGED <<session_state, widget_place, button_fired, place_input,
                   search_button, info, outcome, result_block, recent, cycle0>>

\* langchain1.py:121-124 and 43-49: the guard holds, the spinner is shown and
\* get_place_info issues chain.invoke({"place": place}).
ProcessQuery ==
    /\ pc = "L121"
    /\ ShouldProcess(search_button, place_input)
    /\ calls' = Append(calls, place_input)
    /\ outstanding' = outstanding + 1
    /\ pc' = "L124"
    /\ UNCHANGED <<session_state, widget_place, button_fired, place_input,
                   search_button, info, outcome, result_block, recent, cycle0>>

\* langchain1.py:121: the guard fails, the result block is not rendered.
SkipQuery ==
    /\ pc = "L121"
    /\ ~ShouldProcess(search_button, place_input)
    /\ result_block' = NoResult
    /\ pc' = "L134"
    /\ UNCHANGED <<session_state, widget_place, button_fired, place_input,
                   search_button, info, outcome, calls, outstanding, recent,
                   cycle0>>

\* langchain1.py:49-50 and 124: chain.invoke returns a text.
CallReturns ==
    /\ pc = "L124"
    /\ \E r \in Responses :
         /\ outcome' = [ok |-> TRUE, text |-> r]
         /\ info' = r
    /\ outstanding' = outstanding - 1
    /\ pc' = "L127"
    /\ UNCHANGED <<session_state, widget_place, button_fired, place_input,
                   search_button, calls, result_block, recent, cycle0>>

\* Variant of CallFails: no except clause, the exception ends the run.
CallFails_Propagates ==
    /\ pc = "L124"
    /\ \E e \in Failures : outcome' = [ok |-> FALSE, text |-> e]
    /\ outstanding' = outstanding - 1
    /\ button_fired' = FALSE
    /\ pc' = "idle"
    /\ UNCHANGED <<session_state, widget_place, place_input, search_button,
                   info, calls, result_block, recent, cycle0>>

\* langchain1.py:51-52 and 124: chain.invoke raises, the handler returns the
\* error string.
CallFails ==
    /\ pc = "L124"
    /\ \E e \in Failures :
         /\ outcome' = [ok |-> FALSE, text |-> e]
         /\ info' = ErrorString(e)
    /\ outstanding' = outstanding - 1
    /\ pc' = "L127"
    /\ UNCHANGED <<session_state, widget_place, button_fired, place_input,
                   search_button, calls, result_block, recent, cycle0>>

\* Variant of AppendMessage: a place already in the list is not stored again.
AppendMessage_Dedup ==
    /\ pc = "L127"
    /\ session_state' =
         IF \E i \in 1..Len(History) : History[i].place = place_input
         THEN session_state
         ELSE [session_state EXCEPT
                 !["messages"] = Append(@, NewRecord(place_input, info))]
    /\ pc' = "L130"
    /\ UNCHANGED <<widget_place, button_fired, place_input, search_button,
                   info, outcome, calls, outstanding, result_block, recent,
                   cycle0>>

\* langchain1.py:127
AppendMessage ==
    /\ pc = "L127"
    /\ session_state' =
         [session_state EXCEPT
            !["messages"] = Append(@, NewRecord(place_input, info))]
    /\ pc' = "L130"
    /\ UNCHANGED <<widget_place, button_fired, place_input, search_button,
                   info, outcome, calls, outstanding, result_block, recent,
                   cycle0>>

\* langchain1.py:130-131
DisplayResult ==
    /\ pc = "L130"
    /\ result_block' = [shown |-> TRUE, place |-> place_input, info |-> info]
    /\ pc' = "L134"
    /\ UNCHANGED <<session_state, widget_place, button_fired, place_input,
                   search_button, info, outcome, calls, outstanding, recent,
                   cycle0>>

\* Variant of DisplayHistory: the section leaves out the newest record.
DisplayHistory_ExcludesNewest ==
    /\ pc = "L134"
    /\ recent' =
         IF session_state["messages"] # << >>
         THEN RecentSearches(SubSeq(session_state["messages"], 1,
                                    Len(session_state["messages"]) - 1))
         ELSE << >>
    /\ button_fired' = FALSE
    /\ pc' = "idle"
    /\ UNCHANGED <<session_state, widget_place, place_input, search_button,
                   info, outcome, calls, outstanding, result_block, cycle0>>

\* langchain1.py:134-140; the script ends and the page waits for the user.
DisplayHistory ==
    /\ pc = "L134"
    /\ recent' =
         IF session_state["messages"] # << >>
         THEN RecentSearches(session_state["messages"])
         ELSE << >>
    /\ button_fired' = FALSE
    /\ pc' = "idle"
    /\ UNCHANGED <<session_state, widget_place, place_input, search_button,
                   info, outcome, calls, outstanding, result_block, cycle0>>

ScriptStep ==
    \/ ModuleInit
    \/ ReadWidgets
    \/ ProcessQuery
    \/ SkipQuery
    \/ CallReturns
    \/ CallFails
    \/ AppendMessage
    \/ DisplayResult
    \/ DisplayHistory

Next ==
    \/ UserTypes
    \/ UserClicks
    \/ ModuleInit
    \/ ReadWidgets
    \/ ProcessQuery
    \/ SkipQuery
    \/ CallReturns
    \/ CallFails
    \/ AppendMessage
    \/ DisplayResult
    \/ DisplayHistory

Spec == Init /\ [][Next]_vars

\* The script runs to its end once started, and the outbound call returns
\* or fails.
LiveNext ==
    \/ UserTypes
    \/ UserClicksLive
    \/ ModuleInit
    \/ ReadWidgets
    \/ ProcessQuery
    \/ SkipQuery
    \/ CallReturns
    \/ CallFails
    \/ AppendMessage
    \/ DisplayResult
    \/ DisplayHistory

LiveSpec == Init /\ [][LiveNext]_vars /\ WF_vars(ScriptStep)

TypeOK ==
    /\ DOMAIN session_state \subseteq {"messages"}
    /\ widget_place \in PlaceInputs
    /\ button_fired \in BOOLEAN
    /\ pc \in {"idle", "L14", "L108", "L121", "L124", "L127", "L130", "L134"}
    /\ place_input \in PlaceInputs
    /\ search_button \in BOOLEAN
    /\ outstanding \in 0..1
    /\ Len(History) <= MaxQueries

----------------------------------------------------------------------------
(* Properties *)

Last(s) == s[Len(s)]

\* The cycle that has just finished (or is running) issued an outbound call.
CalledThisCycle == Len(calls) > cycle0.ncalls

\* The cycle left the history and the number of calls as it found them.
CycleChangedNothing ==
    /\ History = cycle0.history
    /\ Len(calls) = cycle0.ncalls

\* C1: a cycle in which the button fired and the input is a non-empty P
\* appends exactly one record, with place = P and info = the value
\* get_place_info returned for P; the history grows by exactly 1.
C1_HandlerAppendsOneRecord ==
    (pc = "idle" /\ search_button /\ widget_place # Empty) =>
        /\ Len(History) = Len(cycle0.history) + 1
        /\ History = Append(cycle0.history,
                            [place |-> widget_place, info |-> info])
        /\ Len(calls) = cycle0.ncalls + 1
        /\ Last(calls) = widget_place
        /\ info = IF outcome.ok THEN outcome.text ELSE ErrorPrefix \o outcome.text

C1_Witness ==
    /\ pc = "idle"
    /\ search_button
    /\ widget_place = Taj
    /\ Len(History) = 2
    /\ History[1].place = Taj
    /\ History[2] = [place |-> Taj, info |-> info]

\* C2: the outbound call is issued and the history changed only in a cycle
\* whose input is non-empty and whose button fired; a cycle with an empty
\* input or without the button press changes neither.
C2_OnlyButtonAndInput ==
    /\ [][(History' # History \/ calls' # calls) =>
             (search_button /\ button_fired /\ place_input # Empty
              /\ place_input = widget_place)]_vars
    /\ []((pc = "idle" /\ ~(search_button /\ widget_place # Empty)) =>
             CycleChangedNothing)

C2_Witness ==
    /\ pc = "idle"
    /\ ~search_button
    /\ widget_place = Taj
    /\ place_input = Taj
    /\ Len(History) = 1
    /\ CycleChangedNothing

\* C3: when the outbound call fails, get_place_info returns
\* "Error getting information: " followed by the failure detail, and the
\* cycle still appends a record with that info and runs to its end.
C3_FailureBecomesRecord ==
    /\ (pc \in {"L127", "L130", "L134", "idle"} /\ CalledThisCycle
          /\ ~outcome.ok) =>
           /\ IsPrefix(ErrorPrefix, info)
           /\ info = ErrorPrefix \o outcome.text
    /\ (pc = "idle" /\ CalledThisCycle /\ ~outcome.ok) =>
           /\ Len(History) = Len(cycle0.history) + 1
           /\ Last(History).info = ErrorPrefix \o outcome.text
           /\ Last(History).place = place_input
           /\ result_block = [shown |-> TRUE, place |-> place_input,
                              info |-> ErrorPrefix \o outcome.text]

C3_Witness ==
    /\ pc = "idle"
    /\ CalledThisCycle
    /\ ~outcome.ok
    /\ Len(History) = 2
    /\ History[1].info \in Responses
    /\ IsPrefix(ErrorPrefix, History[2].info)
    /\ Len(History[2].info) > Len(ErrorPrefix)

\* C4: the history section shows min(N, 5) entries of a history of length
\* N, most recent first: displayed[i] = history[N-1-i] (0-based).
C4_RecentFiveNewestFirst ==
    pc = "idle" =>
        /\ Len(recent) = Min(Len(History), HistoryWindow)
        /\ \A i \in 0..(Len(recent) - 1) :
             recent[i + 1] = History[Len(History) - i]

C4_Witness ==
    /\ pc = "idle"
    /\ Len(History) = 6
    /\ Len(recent) = 5
    /\ recent[1] = History[6]
    /\ recent[5] = History[2]
    /\ History[6] # History[2]
    /\ History[1] # History[2]

\* C5 as claimed: pressing the button with an empty or whitespace-only
\* input issues no outbound call and appends no record.
C5_BlankInputIsNoOp ==
    (pc = "idle" /\ search_button /\ IsBlank(widget_place)) =>
        CycleChangedNothing

\* C5 as amended: pressing the button with an empty input issues no call
\* and appends no record; a whitespace-only input is non-empty, so it is
\* sent to the model and recorded like any other place.
C5_OnlyEmptyInputIsNoOp ==
    (pc = "idle" /\ search_button) =>
        /\ widget_place = Empty => CycleChangedNothing
        /\ (widget_place # Empty /\ IsBlank(widget_place)) =>
              /\ Len(calls) = cycle0.ncalls + 1
              /\ Last(calls) = widget_place
              /\ Len(History) = Len(cycle0.history) + 1
              /\ Last(History).place = widget_place

C5_Witness ==
    /\ pc = "idle"
    /\ search_button
    /\ widget_place = Empty
    /\ CycleChangedNothing
    /\ Len(History) = 1
    /\ History[1].place = Blank

\* C6: the history is empty on first load and append-only afterwards: every
\* step leaves the old history a prefix of the new one, and a re-render
\* never removes or resets the list.
C6_AppendOnly ==
    [][/\ IsPrefix(History, History')
       /\ "messages" \in DOMAIN session_state =>
             "messages" \in DOMAIN session_state'
       /\ ("messages" \notin DOMAIN session_state
             /\ "messages" \in DOMAIN session_state') =>
             session_state'["messages"] = << >>]_vars

C6_Witness ==
    /\ pc = "L108"
    /\ Len(History) = 2
    /\ History = cycle0.history

C8_CallLeadsToRecord ==
    /\ (pc = "L124") ~>
           (pc = "idle" /\ Len(History) = Len(cycle0.history) + 1)
    /\ [](pc = "L124" => History = cycle0.history)
    /\ [][pc # "idle" => cycle0' = cycle0]_vars
    /\ [][pc = "L124" => pc' = "L127"]_vars
    /\ [][pc = "L127" => Len(History') = Len(History) + 1]_vars

C8_Witness ==
    /\ pc = "idle"
    /\ CalledThisCycle
    /\ ~outcome.ok
    /\ Len(History) = Len(cycle0.history) + 1
    /\ Len(History) = 3
    /\ History[1].info \in Responses

\* C9: in a cycle that handles a query, the newest record is shown both as
\* the result block and as the first entry of the history section, with the
\* same place and info, also when info is the error string.
C9_NewestShownTwice ==
    (pc = "idle" /\ CalledThisCycle) =>
        /\ result_block.shown
        /\ result_block.place = place_input
        /\ result_block.info = info
        /\ recent # << >>
        /\ recent[1] = Last(History)
        /\ recent[1].place = result_block.place
        /\ recent[1].info = result_block.info

C9_Witness ==
    /\ pc = "idle"
    /\ CalledThisCycle
    /\ ~outcome.ok
    /\ result_block.shown
    /\ Len(recent) = 2
    /\ recent[1].info = result_block.info
    /\ recent[1] # recent[2]

\* C10: in every idle state the history has one record per outbound call
\* issued, and the i-th record's place is the input of the i-th call, as
\* entered: not trimmed, and repeated places are stored again.
C10_OneRecordPerCall ==
    pc = "idle" =>
        /\ Len(History) = Len(calls)
        /\ \A i \in 1..Len(History) : History[i].place = calls[i]
        /\ CalledThisCycle => Last(calls) = widget_place

C10_Witness ==
    /\ pc = "idle"
    /\ Len(History) = 3
    /\ History[1].place = Taj
    /\ History[2].place = Taj
    /\ History[3].place = Blank
    /\ Len(calls) = 3

====
